---- MODULE Spec2Model ----
(***************************************************************************)
(* Model of autogluon/utils/tabular/features/generators/memory_minimize.py *)
(*                                                                         *)
(* One feature generator instance (a CategoryMemoryMinimizeFeatureGenerator*)
(* or a NumericMemoryMinimizeFeatureGenerator) is constructed and then     *)
(* called by a caller that owns DataFrame objects.  DataFrames live in a   *)
(* heap of objects with identity, so that "the same object" and "a deep    *)
(* copy" are different things.                                             *)
(***************************************************************************)
EXTENDS Integers, Sequences, FiniteSets, TLC

VARIABLES
    self,   \* the generator instance's attributes (its __dict__)
    pc,     \* "new" | "failed" | "idle" | "ready" | "returned" | "raised"
    heap,   \* object id -> DataFrame, the DataFrame objects alive
    arg,    \* id of the DataFrame the caller passes (0: none)
    X0,     \* value of the caller's DataFrame when the call was made
    op,     \* "none" | "__init__" | "fit_transform" | "transform"
    meta0,  \* type_group_map_special of the input's feature metadata
    ret,    \* id of the DataFrame the call returned (0: none)
    ret_meta, \* the type_group_map_special fit_transform returned
    err,    \* "none" or the exception the call raised
    arg_from, \* "result": the caller's DataFrame is the one the last call
              \* returned; "caller": the caller built it
    lookups \* the range lookups __init__ made, in order, with their outcome

vars == <<self, pc, heap, arg, X0, op, meta0, ret, ret_meta, err, arg_from,
          lookups>>

----------------------------------------------------------------------------
(* Bounds of the model *)

MaxCats == 2    \* categories of a categorical DataFrame, over all its columns
MaxCells == 2   \* cells (rows times columns) of a DataFrame

----------------------------------------------------------------------------
(* Values *)

StrLabel(s) == [t |-> "str", v |-> s]
IntLabel(i) == [t |-> "int", v |-> i]

\* the column lists of the caller's DataFrames
NameLists == {<<>>, <<"a">>, <<"a", "b">>, <<"b", "a">>}

\* the row counts a DataFrame with these columns may have
RowCounts(ns) == {n \in 0..MaxCells : n * Len(ns) <= MaxCells}

\* Labels a caller's categorical column may use: strings and integers.
Labels == {StrLabel("red"), IntLabel(0), IntLabel(1)}

\* type_group_map_special values of the feature metadata of the input: the
\* categorical inputs carry none, the integer inputs any of these
SpecialTypes(class) ==
    IF class = "Category" THEN {"none"} ELSE {"none", "text", "binned"}

NoFrame == [kind |-> "none", columns |-> <<>>]

Range(s) == {s[i] : i \in DOMAIN s}

Distinct(s) == \A i, j \in DOMAIN s : i # j => s[i] # s[j]

SeqsUpTo(S, n) == UNION {[1..k -> S] : k \in 0..n}

RECURSIVE SumLen(_)
SumLen(ss) == IF ss = <<>> THEN 0 ELSE Len(Head(ss)) + SumLen(Tail(ss))

----------------------------------------------------------------------------
(* pandas: a categorical column is its categories (distinct labels, in the *)
(* order of cat.categories) and one code per row, the 1-based position of  *)
(* the row's label in the categories.                                      *)

CatColumn(name, categories, codes) ==
    [name |-> name, categories |-> categories, codes |-> codes]

\* the label held by row r of a categorical column
RowValue(col, r) == col.categories[col.codes[r]]

\* the labels of a categorical column, row by row
RowValues(col) == [r \in DOMAIN col.codes |-> RowValue(col, r)]

CategoryLists == {s \in SeqsUpTo(Labels, MaxCats) : Distinct(s) /\ Len(s) > 0}

\* the contents a categorical column of n rows may have
CatContents(n) ==
    UNION {{[categories |-> cs, codes |-> cd] : cd \in [1..n -> 1..Len(cs)]} :
              cs \in CategoryLists}

CatFrame(ns, cc) ==
    [kind |-> "cat",
     columns |-> [i \in DOMAIN ns |->
                    CatColumn(ns[i], cc[i].categories, cc[i].codes)]]

\* the categorical DataFrames a caller may build
CatFrames ==
    UNION {UNION {{CatFrame(ns, cc) :
                      cc \in {f \in [DOMAIN ns -> CatContents(n)] :
                                 SumLen([i \in DOMAIN ns |-> f[i].categories])
                                     <= MaxCats}} :
                     n \in RowCounts(ns)} :
              ns \in NameLists}

\* position of a column name in a DataFrame (0: no such column)
ColumnIndex(X, name) ==
    IF \E i \in DOMAIN X.columns : X.columns[i].name = name
    THEN CHOOSE i \in DOMAIN X.columns : X.columns[i].name = name
    ELSE 0

\* a Python dict built from zip(keys, values): a later pair overwrites
DictFromZip(keys, values) ==
    [k \in Range(keys) |->
        values[CHOOSE i \in DOMAIN keys :
                  /\ keys[i] = k
                  /\ \A j \in DOMAIN keys : keys[j] = k => j <= i]]

\* dict.get(key, key)
DictGet(d, key) == IF key \in DOMAIN d THEN d[key] ELSE key

\* mutant: mapping[category] instead of a lookup with a default
rename_categories_Strict(col, mapping) ==
    IF \A i \in DOMAIN col.categories : col.categories[i] \in DOMAIN mapping
    THEN [err |-> "none",
          col |-> [col EXCEPT !.categories =
                      [i \in DOMAIN col.categories |->
                          mapping[col.categories[i]]]]]
    ELSE [err |-> "KeyError", col |-> col]

\* Categorical.rename_categories(mapping, inplace=True) with a dict-like:
\* every category is looked up in the mapping, a category the mapping lacks
\* is passed through, the codes stay; categories that are no longer unique
\* raise ValueError and leave the column as it was.
rename_categories(col, mapping) ==
    LET new == [i \in DOMAIN col.categories |->
                   DictGet(mapping, col.categories[i])]
    IN  IF Distinct(new)
        THEN [err |-> "none", col |-> [col EXCEPT !.categories = new]]
        ELSE [err |-> "ValueError", col |-> col]

\* a free object id
NewId(h) == CHOOSE i \in {1, 2} : i \notin DOMAIN h

----------------------------------------------------------------------------
(* CategoryMemoryMinimizeFeatureGenerator *)

\* mutant: the codes counted from 1
NewCategories_FromOne(old_categories) ==
    [i \in DOMAIN old_categories |-> IntLabel(i)]

\* list(range(len(old_categories)))
NewCategories(old_categories) ==
    [i \in DOMAIN old_categories |-> IntLabel(i - 1)]

\* one entry per column of X, in column order (the dict's insertion order)
_get_category_map(X) ==
    [i \in DOMAIN X.columns |->
        [column |-> X.columns[i].name,
         map |-> DictFromZip(X.columns[i].categories,
                             NewCategories(X.columns[i].categories))]]

\* the loop over self._category_maps from entry i on, on DataFrame X:
\* X[column] raises KeyError when X has no such column
RECURSIVE RenameLoop(_, _, _)
RenameLoop(X, category_maps, i) ==
    IF i > Len(category_maps) THEN [err |-> "none", X |-> X]
    ELSE LET c == ColumnIndex(X, category_maps[i].column)
         IN  IF c = 0 THEN [err |-> "KeyError", X |-> X]
             ELSE LET r == rename_categories(X.columns[c],
                                             category_maps[i].map)
                  IN  IF r.err # "none" THEN [err |-> r.err, X |-> X]
                      ELSE RenameLoop([X EXCEPT !.columns[c] = r.col],
                                      category_maps, i + 1)

\* mutant: the copy forgotten
CopyTarget_NoCopy(slf, h, x) == x

\* the DataFrame object the rewrite works on: a deep copy unless inplace
CopyTarget(slf, h, x) == IF ~slf.inplace THEN NewId(h) ELSE x

\* the outcome of a call: the instance and the heap after it, the object
\* returned (0: none) and the exception raised ("none": none)
Outcome(slf, h, r, e) == [self |-> slf, heap |-> h, ret |-> r, err |-> e]

\* the columns of X the maps name, in the maps' order
RECURSIVE MappedColumns(_, _, _)
MappedColumns(X, category_maps, i) ==
    IF i > Len(category_maps) THEN <<>>
    ELSE LET c == ColumnIndex(X, category_maps[i].column)
             rest == MappedColumns(X, category_maps, i + 1)
         IN  IF c = 0 THEN rest ELSE <<X.columns[c]>> \o rest

\* mutant: the result holds the mapped columns only
Rewrite_OnlyMapped(slf, h, x) ==
    LET t == CopyTarget(slf, h, x)
        r == RenameLoop(h[x], slf._category_maps, 1)
        out == [r.X EXCEPT !.columns =
                   MappedColumns(r.X, slf._category_maps, 1)]
    IN  IF r.err = "none"
        THEN Outcome(slf, (t :> out) @@ h, t, "none")
        ELSE Outcome(slf, IF t = x THEN (t :> r.X) @@ h ELSE h, 0, r.err)

\* mutant: the maps are fitted again on the DataFrame passed
Rewrite_Refit(slf, h, x) ==
    LET t == CopyTarget(slf, h, x)
        again == ("_category_maps" :> _get_category_map(h[x])) @@ slf
        r == RenameLoop(h[x], again._category_maps, 1)
    IN  IF r.err = "none"
        THEN Outcome(again, (t :> r.X) @@ h, t, "none")
        ELSE Outcome(again, IF t = x THEN (t :> r.X) @@ h ELSE h, 0, r.err)

\* the body of "if self._category_maps:": the copy unless inplace, then the
\* loop; a deep copy left behind by an exception is garbage
Rewrite(slf, h, x) ==
    LET t == CopyTarget(slf, h, x)
        r == RenameLoop(h[x], slf._category_maps, 1)
    IN  IF r.err = "none"
        THEN Outcome(slf, (t :> r.X) @@ h, t, "none")
        ELSE Outcome(slf, IF t = x THEN (t :> r.X) @@ h ELSE h, 0, r.err)

\* mutant: an instance never fitted is treated as one with no maps
_minimize_categorical_memory_usage_Lenient(slf, h, x) ==
    IF "_category_maps" \notin DOMAIN slf THEN Outcome(slf, h, x, "none")
    ELSE IF Len(slf._category_maps) > 0 THEN Rewrite(slf, h, x)
    ELSE Outcome(slf, h, x, "none")

\* mutant: no test of the maps being empty
_minimize_categorical_memory_usage_NoEmptyTest(slf, h, x) ==
    IF "_category_maps" \notin DOMAIN slf
    THEN Outcome(slf, h, 0, "AttributeError")
    ELSE Rewrite(slf, h, x)

\* The call on the DataFrame object x of heap h.  Reading
\* self._category_maps, which __init__ does not set, raises AttributeError
\* before any fit; empty maps return X itself.
_minimize_categorical_memory_usage(slf, h, x) ==
    IF "_category_maps" \notin DOMAIN slf
    THEN Outcome(slf, h, 0, "AttributeError")
    ELSE IF Len(slf._category_maps) > 0 THEN Rewrite(slf, h, x)
    ELSE Outcome(slf, h, x, "none")

Category_transform(slf, h, x) == _minimize_categorical_memory_usage(slf, h, x)

\* AbstractFeatureGenerator.fit_transform records the input's feature
\* metadata on the instance before it calls _fit_transform
SetFeatureMetadataIn(slf, meta) ==
    ("feature_metadata_in" :> [type_group_map_special |-> meta]) @@ slf

\* self._category_maps = self._get_category_map(X=X); self._transform(X)
Category_fit_transform(slf, h, x) ==
    Category_transform(("_category_maps" :> _get_category_map(h[x])) @@ slf,
                       h, x)

Category__init__(inplace) ==
    /\ pc = "new"
    /\ self' = [class |-> "Category", inplace |-> inplace]
    /\ pc' = "idle"
    /\ op' = "__init__"
    /\ UNCHANGED <<heap, arg, X0, meta0, ret, ret_meta, err, arg_from, lookups>>

Category_fit_transform_call(meta) ==
    /\ pc = "ready"
    /\ self.class = "Category"
    /\ LET r == Category_fit_transform(SetFeatureMetadataIn(self, meta),
                                       heap, arg)
       IN  /\ self' = r.self
           /\ heap' = r.heap
           /\ ret' = r.ret
           /\ err' = r.err
           /\ ret_meta' =
                IF r.err = "none"
                THEN r.self.feature_metadata_in.type_group_map_special
                ELSE "none"
           /\ pc' = IF r.err = "none" THEN "returned" ELSE "raised"
    /\ X0' = heap[arg]
    /\ meta0' = meta
    /\ op' = "fit_transform"
    /\ UNCHANGED <<arg, arg_from, lookups>>

Category_transform_call ==
    /\ pc = "ready"
    /\ self.class = "Category"
    /\ LET r == Category_transform(self, heap, arg)
       IN  /\ self' = r.self
           /\ heap' = r.heap
           /\ ret' = r.ret
           /\ err' = r.err
           /\ pc' = IF r.err = "none" THEN "returned" ELSE "raised"
    /\ X0' = heap[arg]
    /\ op' = "transform"
    /\ UNCHANGED <<arg, meta0, ret_meta, arg_from, lookups>>

----------------------------------------------------------------------------
(* NumericMemoryMinimizeFeatureGenerator *)

\* the dtype_out arguments a caller may construct the generator with
DTypes == {"uint8", "int8", "float16", "object"}

\* values of the caller's integer (int64) columns
NumValues == {-70000, -200, 0, 130, 255, 2049, 70000}

NumColumn(name, dtype, values) ==
    [name |-> name, dtype |-> dtype, values |-> values]

NumFrame(ns, vv) ==
    [kind |-> "num",
     columns |-> [i \in DOMAIN ns |-> NumColumn(ns[i], "int64", vv[i])]]

\* the integer DataFrames a caller may build
NumFrames ==
    UNION {UNION {{NumFrame(ns, vv) : vv \in [DOMAIN ns -> [1..n -> NumValues]]} :
                     n \in RowCounts(ns)} :
              ns \in NameLists}

\* np.iinfo(dtype): the range of an integer type, ValueError for any other
iinfo(dtype) ==
    CASE dtype = "uint8" ->
             [fn |-> "iinfo", err |-> "none", dtype |-> dtype,
              min |-> 0, max |-> 255]
      [] dtype = "int8" ->
             [fn |-> "iinfo", err |-> "none", dtype |-> dtype,
              min |-> -128, max |-> 127]
      [] OTHER ->
             [fn |-> "iinfo", err |-> "ValueError", dtype |-> dtype,
              min |-> 0, max |-> 0]

\* np.finfo(dtype): the range of a floating type, ValueError for any other
finfo(dtype) ==
    CASE dtype = "float16" ->
             [fn |-> "finfo", err |-> "none", dtype |-> dtype,
              min |-> -65504, max |-> 65504]
      [] OTHER ->
             [fn |-> "finfo", err |-> "ValueError", dtype |-> dtype,
              min |-> 0, max |-> 0]

\* mutant: clip_min and clip_max returned in the wrong order
_get_dtype_clip_args_Swapped(dtype) ==
    LET i == iinfo(dtype)
    IN  IF i.err = "none"
        THEN [err |-> "none", lookups |-> <<i>>,
              dtype |-> i.dtype, min |-> i.max, max |-> i.min]
        ELSE LET f == finfo(dtype)
             IN  [err |-> f.err, lookups |-> <<i, f>>,
                  dtype |-> f.dtype, min |-> f.max, max |-> f.min]

\* mutant: np.finfo tried first
_get_dtype_clip_args_FinfoFirst(dtype) ==
    LET f == finfo(dtype)
    IN  IF f.err = "none"
        THEN [err |-> "none", lookups |-> <<f>>,
              dtype |-> f.dtype, min |-> f.min, max |-> f.max]
        ELSE LET i == iinfo(dtype)
             IN  [err |-> i.err, lookups |-> <<f, i>>,
                  dtype |-> i.dtype, min |-> i.min, max |-> i.max]

\* try np.iinfo, on ValueError np.finfo; an exception of np.finfo propagates.
\* lookups: the lookups made, in order.
_get_dtype_clip_args(dtype) ==
    LET i == iinfo(dtype)
    IN  IF i.err = "none"
        THEN [err |-> "none", lookups |-> <<i>>,
              dtype |-> i.dtype, min |-> i.min, max |-> i.max]
        ELSE LET f == finfo(dtype)
             IN  [err |-> f.err, lookups |-> <<i, f>>,
                  dtype |-> f.dtype, min |-> f.min, max |-> f.max]

\* largest power of two that is at most a (a >= 1)
RECURSIVE Pow2Below(_)
Pow2Below(a) == IF a < 2 THEN 1 ELSE 2 * Pow2Below(a \div 2)

\* an integer rounded to the nearest float16 (11 significant bits, ties to
\* even); 65536 stands for infinity
Float16(v) ==
    LET a == IF v < 0 THEN -v ELSE v
        sign == IF v < 0 THEN -1 ELSE 1
        p == Pow2Below(a)
        ulp == IF p > 1024 THEN p \div 1024 ELSE 1
        q == a \div ulp
        rem == a % ulp
        up == 2 * rem > ulp \/ (2 * rem = ulp /\ q % 2 = 1)
        rounded == (IF up THEN q + 1 ELSE q) * ulp
    IN  IF a = 0 THEN 0
        ELSE IF rounded > 65504 THEN sign * 65536 ELSE sign * rounded

\* ndarray.astype(dtype) of an integer: two's complement wrap-around for the
\* integer types, rounding for float16
astype(v, dtype) ==
    CASE dtype = "uint8" -> v % 256
      [] dtype = "int8" -> ((v + 128) % 256) - 128
      [] dtype = "float16" -> Float16(v)
      [] OTHER -> v

\* np.clip(v, clip_min, clip_max)
clip(v, clip_min, clip_max) ==
    IF v < clip_min THEN clip_min ELSE IF v > clip_max THEN clip_max ELSE v

\* utils.clip_and_astype(df, clip_min, clip_max, dtype): every value of every
\* column clamped into [clip_min, clip_max], then the column cast to dtype
clip_and_astype(df, clip_min, clip_max, dtype) ==
    [df EXCEPT !.columns =
        [i \in DOMAIN df.columns |->
            NumColumn(df.columns[i].name, dtype,
                      [r \in DOMAIN df.columns[i].values |->
                          astype(clip(df.columns[i].values[r],
                                      clip_min, clip_max), dtype)])]]

\* the result is a new DataFrame object, the argument is left as it was
_minimize_numeric_memory_usage(slf, h, x) ==
    LET t == NewId(h)
    IN  Outcome(slf,
                (t :> clip_and_astype(h[x], slf._clip_min, slf._clip_max,
                                      slf.dtype_out)) @@ h,
                t, "none")

Numeric_transform(slf, h, x) == _minimize_numeric_memory_usage(slf, h, x)

\* the values of all the columns of a DataFrame
AllValues(X) ==
    UNION {Range(X.columns[i].values) : i \in DOMAIN X.columns}

\* mutant: fitting narrows clip_max to the largest value seen
Numeric_fit_transform_Learn(slf, h, x) ==
    LET seen == {v \in AllValues(h[x]) : v < slf._clip_max}
        top == IF seen = {} THEN slf._clip_max
               ELSE CHOOSE v \in seen : \A w \in seen : w <= v
    IN  Numeric_transform([slf EXCEPT !._clip_max = top], h, x)

\* X_out = self._transform(X)
Numeric_fit_transform(slf, h, x) == Numeric_transform(slf, h, x)

Numeric__init__(dtype_out) ==
    /\ pc = "new"
    /\ LET r == _get_dtype_clip_args(dtype_out)
       IN  /\ lookups' = r.lookups
           /\ err' = r.err
           /\ IF r.err = "none"
              THEN /\ self' = [class |-> "Numeric", dtype_out |-> r.dtype,
                               _clip_min |-> r.min, _clip_max |-> r.max]
                   /\ pc' = "idle"
              ELSE /\ self' = self
                   /\ pc' = "failed"
    /\ op' = "__init__"
    /\ UNCHANGED <<heap, arg, X0, meta0, ret, ret_meta, arg_from>>

Numeric_fit_transform_call(meta) ==
    /\ pc = "ready"
    /\ self.class = "Numeric"
    /\ LET r == Numeric_fit_transform(SetFeatureMetadataIn(self, meta),
                                      heap, arg)
       IN  /\ self' = r.self
           /\ heap' = r.heap
           /\ ret' = r.ret
           /\ err' = r.err
           /\ ret_meta' =
                IF r.err = "none"
                THEN r.self.feature_metadata_in.type_group_map_special
                ELSE "none"
           /\ pc' = IF r.err = "none" THEN "returned" ELSE "raised"
    /\ X0' = heap[arg]
    /\ meta0' = meta
    /\ op' = "fit_transform"
    /\ UNCHANGED <<arg, arg_from, lookups>>

Numeric_transform_call ==
    /\ pc = "ready"
    /\ self.class = "Numeric"
    /\ LET r == Numeric_transform(self, heap, arg)
       IN  /\ self' = r.self
           /\ heap' = r.heap
           /\ ret' = r.ret
           /\ err' = r.err
           /\ pc' = IF r.err = "none" THEN "returned" ELSE "raised"
    /\ X0' = heap[arg]
    /\ op' = "transform"
    /\ UNCHANGED <<arg, meta0, ret_meta, arg_from, lookups>>

----------------------------------------------------------------------------
(* The caller *)

\* the DataFrames the caller may build for the generator it constructed
Frames == IF self.class = "Category" THEN CatFrames ELSE NumFrames

\* the caller builds a DataFrame to pass to the generator
NewDataFrame(df) ==
    /\ pc = "idle"
    /\ heap' = (1 :> df)
    /\ arg' = 1
    /\ pc' = "ready"
    /\ UNCHANGED <<self, X0, op, meta0, ret, ret_meta, err, arg_from, lookups>>

\* the caller keeps the returned DataFrame, drops every other one, and
\* passes it to the next call (object ids are interchangeable: the object
\* kept is renamed 1)
PassResult ==
    /\ pc = "returned"
    /\ heap' = (1 :> heap[ret])
    /\ arg' = 1
    /\ arg_from' = "result"
    /\ pc' = "ready"
    /\ X0' = NoFrame
    /\ op' = "none"
    /\ meta0' = "none"
    /\ ret' = 0
    /\ ret_meta' = "none"
    /\ err' = "none"
    /\ UNCHANGED <<self, lookups>>

\* the caller drops the DataFrames of the last call
Discard ==
    /\ pc \in {"returned", "raised"}
    /\ heap' = <<>>
    /\ arg' = 0
    /\ arg_from' = "caller"
    /\ pc' = "idle"
    /\ X0' = NoFrame
    /\ op' = "none"
    /\ meta0' = "none"
    /\ ret' = 0
    /\ ret_meta' = "none"
    /\ err' = "none"
    /\ UNCHANGED <<self, lookups>>

Init ==
    /\ self = [class |-> "none"]
    /\ pc = "new"
    /\ heap = <<>>
    /\ arg = 0
    /\ X0 = NoFrame
    /\ op = "none"
    /\ meta0 = "none"
    /\ ret = 0
    /\ ret_meta = "none"
    /\ err = "none"
    /\ arg_from = "caller"
    /\ lookups = <<>>

Next ==
    \/ \E inplace \in BOOLEAN : Category__init__(inplace)
    \/ \E dtype_out \in DTypes : Numeric__init__(dtype_out)
    \/ \E df \in Frames : NewDataFrame(df)
    \/ \E meta \in SpecialTypes("Category") : Category_fit_transform_call(meta)
    \/ Category_transform_call
    \/ \E meta \in SpecialTypes("Numeric") : Numeric_fit_transform_call(meta)
    \/ Numeric_transform_call
    \/ PassResult
    \/ Discard

Spec == Init /\ [][Next]_vars

----------------------------------------------------------------------------
(* Properties *)

IsCategory == self.class = "Category"
IsNumeric == self.class = "Numeric"

\* a fit_transform or transform call has ended, by a return or an exception
CallEnded == pc \in {"returned", "raised"}

Fitted == "_category_maps" \in DOMAIN self

\* the map the maps hold for a column (the empty dict when there is none)
MapOf(category_maps, name) ==
    IF \E i \in DOMAIN category_maps : category_maps[i].column = name
    THEN category_maps[CHOOSE i \in DOMAIN category_maps :
                          category_maps[i].column = name].map
    ELSE <<>>

\* Y is X relabelled through the maps: the same columns in the same order,
\* the same rows in the same order, each label replaced by its code (a label
\* the maps do not know kept)
Relabelled(Y, X, category_maps) ==
    /\ Len(Y.columns) = Len(X.columns)
    /\ \A c \in DOMAIN X.columns :
          LET m == MapOf(category_maps, X.columns[c].name)
          IN  /\ Y.columns[c].name = X.columns[c].name
              /\ Len(Y.columns[c].codes) = Len(X.columns[c].codes)
              /\ \A r \in DOMAIN X.columns[c].codes :
                    RowValue(Y.columns[c], r)
                        = DictGet(m, RowValue(X.columns[c], r))
              /\ Len(Y.columns[c].categories) = Len(X.columns[c].categories)
              /\ \A j \in DOMAIN X.columns[c].categories :
                    Y.columns[c].categories[j]
                        = DictGet(m, X.columns[c].categories[j])

\* the distinct labels of a column in the order the rows first show them
RECURSIVE FirstSeen(_)
FirstSeen(labels) ==
    IF labels = <<>> THEN <<>>
    ELSE LET before == FirstSeen(SubSeq(labels, 1, Len(labels) - 1))
             last == labels[Len(labels)]
         IN  IF last \in Range(before) THEN before ELSE Append(before, last)

(* C1 as stated: after fit_transform the i-th label in first-seen order   *)
(* (the order in which the rows first show the labels) has code i, as in   *)
(* [red, blue, red, green] -> {red:0, blue:1, green:2}.                    *)
C1_FirstSeenOrder ==
    (IsCategory /\ op = "fit_transform" /\ pc = "returned") =>
        \A i \in DOMAIN X0.columns :
            LET seen == FirstSeen(RowValues(X0.columns[i]))
            IN  \A j \in DOMAIN seen :
                    self._category_maps[i].map[seen[j]] = IntLabel(j - 1)

(* C1, amended: fit_transform never raises; after it the map stored for a  *)
(* column with k categories is one-to-one from the k categories onto       *)
(* 0..k-1, the i-th category in the order of the column's cat.categories   *)
(* (not the order the rows first show them) receiving code i, and every    *)
(* row of the output column holds the code of the label the row held.      *)
C1_CategoryOrder ==
    (IsCategory /\ op = "fit_transform" /\ CallEnded) =>
        /\ pc = "returned"
        /\ Len(self._category_maps) = Len(X0.columns)
        /\ Len(heap[ret].columns) = Len(X0.columns)
        /\ \A i \in DOMAIN X0.columns :
              LET col == X0.columns[i]
                  k == Len(col.categories)
                  e == self._category_maps[i]
                  out == heap[ret].columns[i]
              IN  /\ e.column = col.name
                  /\ DOMAIN e.map = Range(col.categories)
                  /\ Cardinality(DOMAIN e.map) = k
                  /\ {e.map[l] : l \in DOMAIN e.map}
                        = {IntLabel(n) : n \in 0..(k - 1)}
                  /\ \A j \in 1..k : e.map[col.categories[j]] = IntLabel(j - 1)
                  /\ Len(out.codes) = Len(col.codes)
                  /\ \A r \in DOMAIN col.codes :
                        RowValue(out, r) = e.map[RowValue(col, r)]

\* fit_transform of a column whose rows show the labels in another order
\* than its categories list them
C1_Witness ==
    /\ IsCategory /\ op = "fit_transform" /\ pc = "returned"
    /\ \E i \in DOMAIN X0.columns :
          /\ Len(X0.columns[i].categories) = 2
          /\ X0.columns[i].codes = <<2, 1>>
          /\ RowValues(heap[ret].columns[i]) = <<IntLabel(1), IntLabel(0)>>

(* C2 as stated: with inplace=False every call leaves the input unchanged  *)
(* and returns a separate dataset; with inplace=True the call returns the  *)
(* caller's object, rewritten.                                             *)
C2_AlwaysSeparate ==
    (IsCategory /\ pc = "returned") =>
        IF ~self.inplace
        THEN heap[arg] = X0 /\ ret # arg
        ELSE ret = arg /\ Relabelled(heap[arg], X0, self._category_maps)

(* C2, amended: with inplace=False every call, returning or raising,       *)
(* leaves the input unchanged, and the result is a separate dataset when   *)
(* the fitted maps are not empty and the input object itself when they are *)
(* empty; with inplace=True the call returns the caller's object, which    *)
(* shows the codes.                                                        *)
C2_InplaceFlag ==
    (IsCategory /\ CallEnded) =>
        IF ~self.inplace
        THEN /\ heap[arg] = X0
             /\ pc = "returned" =>
                   IF Len(self._category_maps) > 0
                   THEN /\ ret # arg
                        /\ Relabelled(heap[ret], X0, self._category_maps)
                   ELSE ret = arg
        ELSE pc = "returned" =>
                /\ ret = arg
                /\ Relabelled(heap[arg], X0, self._category_maps)

\* a call with inplace=False that relabelled a copy and left the input alone
C2_Witness ==
    /\ IsCategory /\ pc = "returned" /\ ~self.inplace
    /\ ret # arg
    /\ heap[arg] = X0
    /\ heap[ret] # X0
    /\ \E c \in DOMAIN X0.columns : Len(X0.columns[c].codes) > 0

(* C3 as stated: transform maps v <= lo to lo, v >= hi to hi and leaves    *)
(* lo < v < hi equal to v, for every target type.                          *)
C3_InRangeUnchanged ==
    (IsNumeric /\ pc = "returned") =>
        \A i \in DOMAIN X0.columns : \A r \in DOMAIN X0.columns[i].values :
            LET v == X0.columns[i].values[r]
                w == heap[ret].columns[i].values[r]
                lo == self._clip_min
                hi == self._clip_max
            IN  /\ lo <= w /\ w <= hi
                /\ v <= lo => w = lo
                /\ v >= hi => w = hi
                /\ (lo < v /\ v < hi) => w = v

Abs(n) == IF n < 0 THEN -n ELSE n

(* C3, amended: lo and hi are the bounds of the target type; transform     *)
(* maps every value into [lo, hi], v <= lo to lo and v >= hi to hi (never   *)
(* wrapped, never a sentinel); lo < v < hi is left equal to v when the      *)
(* target is an integer type, and is rounded to the nearest value of the   *)
(* type (within a relative error of 2^-11 for float16) when it is a        *)
(* floating-point type.                                                    *)
C3_SaturatingClip ==
    (IsNumeric /\ pc = "returned") =>
        LET lo == self._clip_min
            hi == self._clip_max
        IN  /\ self.dtype_out = "uint8" => (lo = 0 /\ hi = 255)
            /\ self.dtype_out = "int8" => (lo = -128 /\ hi = 127)
            /\ self.dtype_out = "float16" => (lo = -65504 /\ hi = 65504)
            /\ \A i \in DOMAIN X0.columns :
                 \A r \in DOMAIN X0.columns[i].values :
                    LET v == X0.columns[i].values[r]
                        w == heap[ret].columns[i].values[r]
                    IN  /\ lo <= w /\ w <= hi
                        /\ v <= lo => w = lo
                        /\ v >= hi => w = hi
                        /\ (lo < v /\ v < hi) =>
                              IF self.dtype_out \in {"uint8", "int8"}
                              THEN w = v
                              ELSE 2048 * Abs(w - v) <= Abs(v)

\* an unsigned 8-bit transform of a value below 0 and a value above 255
C3_Witness ==
    /\ IsNumeric /\ pc = "returned" /\ op = "transform"
    /\ self.dtype_out = "uint8"
    /\ \E i \in DOMAIN X0.columns :
          /\ X0.columns[i].values = <<-200, 70000>>
          /\ heap[ret].columns[i].values = <<0, 255>>

(* C4 as stated: transform on an instance on which fit_transform was never *)
(* called returns the input unchanged and raises nothing.                  *)
C4_UnfittedReturnsInput ==
    (IsCategory /\ op = "transform" /\ CallEnded /\ ~Fitted) =>
        /\ pc = "returned"
        /\ ret = arg
        /\ heap[arg] = X0

(* C4, amended: transform on an instance whose fitted maps are empty       *)
(* (fit_transform ran on a dataset without columns) returns the input      *)
(* object unchanged and raises nothing; on an instance on which            *)
(* fit_transform was never called it raises AttributeError and returns     *)
(* nothing, the input unchanged.                                           *)
C4_EmptyMapsReturnInput ==
    (IsCategory /\ op = "transform" /\ CallEnded) =>
        /\ ~Fitted =>
              /\ pc = "raised" /\ err = "AttributeError" /\ ret = 0
              /\ heap[arg] = X0
        /\ (Fitted /\ Len(self._category_maps) = 0) =>
              /\ pc = "returned" /\ err = "none" /\ ret = arg
              /\ heap[arg] = X0
              /\ DOMAIN heap = {arg}

\* transform of a dataset with a column by an instance fitted on no column
C4_Witness ==
    /\ IsCategory /\ op = "transform" /\ pc = "returned"
    /\ Fitted /\ Len(self._category_maps) = 0
    /\ Len(X0.columns) > 0
    /\ ret = arg

(* C5: once fitted, the stored maps change in no step but a fit_transform: *)
(* a transform call, returning or raising, inplace or not, on any dataset, *)
(* adds, removes and changes no entry, and the dataset it returns is its   *)
(* input relabelled through those maps.                                    *)
C5_MapsImmutable ==
    [][(IsCategory /\ Fitted /\ op' # "fit_transform") =>
          /\ self' = self
          /\ (pc = "ready" /\ op' = "transform" /\ pc' = "returned") =>
                Relabelled(heap'[ret'], X0', self._category_maps)]_vars

\* a transform of a dataset that holds a label the fitted maps do not know
C5_Witness ==
    /\ IsCategory /\ op = "transform" /\ pc = "returned"
    /\ Len(self._category_maps) > 0
    /\ \E c \in DOMAIN X0.columns :
          LET m == MapOf(self._category_maps, X0.columns[c].name)
          IN  /\ m # <<>>
              /\ \E l \in Range(X0.columns[c].categories) : l \notin DOMAIN m
              /\ \E l \in Range(X0.columns[c].categories) : l \in DOMAIN m

(* C6: the dataset a call of either generator returns has the columns of   *)
(* the input in the same order and the rows of the input in the same      *)
(* order: the value at row r of a column is the image of the value at row  *)
(* r of that column of the input.                                          *)
C6_ShapePreserved ==
    (pc = "returned" /\ op \in {"fit_transform", "transform"}) =>
        IF IsCategory
        THEN Relabelled(heap[ret], X0, self._category_maps)
        ELSE /\ Len(heap[ret].columns) = Len(X0.columns)
             /\ \A c \in DOMAIN X0.columns :
                   /\ heap[ret].columns[c].name = X0.columns[c].name
                   /\ Len(heap[ret].columns[c].values)
                         = Len(X0.columns[c].values)
                   /\ \A r \in DOMAIN X0.columns[c].values :
                         heap[ret].columns[c].values[r]
                             = astype(clip(X0.columns[c].values[r],
                                           self._clip_min, self._clip_max),
                                      self.dtype_out)

\* a transform of two columns listed in another order than the maps were
\* fitted in
C6_Witness ==
    /\ IsCategory /\ op = "transform" /\ pc = "returned"
    /\ Len(X0.columns) = 2
    /\ Len(self._category_maps) = 2
    /\ self._category_maps[1].column = X0.columns[2].name
    /\ Len(X0.columns[1].codes) = 1
    /\ heap[ret] # X0

\* a second transform: the dataset passed is the one the last call returned
SecondTransform ==
    IsCategory /\ op = "transform" /\ arg_from = "result" /\ CallEnded

\* the second transform finds a label of the fitted maps among the
\* categories of a column, and the map gives it another code
Remapped ==
    \E c \in DOMAIN X0.columns : \E l \in Range(X0.columns[c].categories) :
        LET m == MapOf(self._category_maps, X0.columns[c].name)
        IN  l \in DOMAIN m /\ m[l] # l

(* C7 as stated: a second transform of an already relabelled column raises *)
(* an error or leaves the codes as the first transform left them.          *)
C7_ErrorOrNoOp ==
    SecondTransform => (pc = "raised" \/ heap[ret] = X0)

(* C7, amended: a second transform leaves the codes as the first left them *)
(* when no code in the column is itself a label of the fitted map (labels  *)
(* that are all strings, say); when a code in the column is a label of the *)
(* map with another code, the second transform relabels it again: it      *)
(* raises ValueError when two categories collide and otherwise silently   *)
(* returns codes that differ from the first transform's.                   *)
C7_SecondTransform ==
    SecondTransform =>
        /\ ~Remapped => (pc = "returned" /\ heap[ret] = X0)
        /\ (Remapped /\ pc = "returned") => heap[ret] # X0
        /\ pc = "raised" => (err = "ValueError" /\ Remapped)

\* a second transform that silently changed the codes
C7_Witness ==
    /\ SecondTransform
    /\ pc = "returned"
    /\ heap[ret] # X0

(* C8 as stated: the failure of both range lookups in the constructor is   *)
(* the only failure path of the two generators: nothing else raises (here  *)
(* even leaving aside the calls on a category generator never fitted).     *)
C8_OnlyFailurePath ==
    (err # "none" /\ (IsCategory => Fitted)) =>
        (pc = "failed" /\ op = "__init__")

(* C8, amended: the constructor of the numeric generator looks the integer *)
(* range up first and the floating-point range only when that failed; when *)
(* both fail the failure leaves the constructor and no instance exists;    *)
(* this is the only failure path of the numeric generator: no call on a    *)
(* constructed one raises.  (The category generator has failure paths of   *)
(* its own.)                                                               *)
C8_NumericFailurePath ==
    /\ Len(lookups) >= 1 => lookups[1].fn = "iinfo"
    /\ Len(lookups) = 1 => lookups[1].err = "none"
    /\ Len(lookups) >= 2 =>
          /\ Len(lookups) = 2
          /\ lookups[1].err # "none"
          /\ lookups[2].fn = "finfo"
    /\ pc = "failed" <=> (Len(lookups) = 2 /\ lookups[2].err # "none")
    /\ pc = "failed" => (self.class = "none" /\ err = "ValueError")
    /\ IsNumeric =>
          /\ Len(lookups) >= 1
          /\ lookups[Len(lookups)].err = "none"
          /\ err = "none"
          /\ pc # "raised"

\* a constructor that raised after both lookups failed
C8_Witness ==
    /\ pc = "failed"
    /\ self.class = "none"
    /\ Len(lookups) = 2

(* C9: the target type and the clip bounds of a numeric generator stay the *)
(* values derived at construction; fit_transform and transform alike       *)
(* return the input clipped to those bounds and cast to that type, in a    *)
(* new dataset, whatever calls were made before, and fit_transform returns *)
(* the special-type metadata of its input unchanged.                       *)
C9_NumericStateless ==
    IsNumeric =>
        LET made == lookups[Len(lookups)]
        IN  /\ self.dtype_out = made.dtype
            /\ self._clip_min = made.min
            /\ self._clip_max = made.max
            /\ pc = "returned" =>
                  /\ heap[ret] = clip_and_astype(X0, made.min, made.max,
                                                 made.dtype)
                  /\ heap[arg] = X0
                  /\ op = "fit_transform" => ret_meta = meta0

\* a fit_transform of values outside the range, with special-type metadata
C9_Witness ==
    /\ IsNumeric /\ op = "fit_transform" /\ pc = "returned"
    /\ meta0 = "text" /\ ret_meta = "text"
    /\ \E v \in AllValues(X0) : v > self._clip_max
    /\ heap[ret] # X0

(* C10: the fitted maps are empty exactly when fit_transform ran on a      *)
(* dataset without columns; then every call returns the caller's object    *)
(* itself and makes no copy, also with inplace=False; with maps that are   *)
(* not empty and inplace=False a call returns another object, a copy, and  *)
(* the caller's object is unchanged.                                       *)
C10_EmptyMapsAlias ==
    (IsCategory /\ pc = "returned") =>
        /\ op = "fit_transform" =>
              (Len(self._category_maps) = 0 <=> Len(X0.columns) = 0)
        /\ Len(self._category_maps) = 0 =>
              /\ ret = arg
              /\ DOMAIN heap = {arg}
              /\ heap[arg] = X0
        /\ (Len(self._category_maps) > 0 /\ ~self.inplace) =>
              /\ ret # arg
              /\ DOMAIN heap = {arg, ret}
              /\ heap[arg] = X0

\* with inplace=False and empty maps, a transform of a dataset with rows
\* returned the caller's object
C10_Witness ==
    /\ IsCategory /\ pc = "returned" /\ ~self.inplace
    /\ Len(self._category_maps) = 0
    /\ \E c \in DOMAIN X0.columns : Len(X0.columns[c].codes) > 0
    /\ ret = arg
    /\ DOMAIN heap = {arg}

====
